---- MODULE Spec2Model ----
(***************************************************************************)
(* Scene request handlers of obs-websocket (WSRequestHandler_Scenes.cpp):  *)
(* SetCurrentScene, GetCurrentScene, GetScene, ReorderSceneItems,          *)
(* SetSceneItemIndex and SetSceneItemOrder, run by request threads against *)
(* the compositor's scenes.  A scene's order is a sequence of item ids,    *)
(* position 0 first.                                                       *)
(***************************************************************************)
EXTENDS Integers, Sequences, FiniteSets, TLC

\* ---------------------------------------------------------------- bounds
MaxLen == 3        \* longest "items" array of a ReorderSceneItems request
NumItems == 3      \* number of items of scene "Main"

\* ------------------------------------------------------- the compositor
Scenes == {"Main", "Alt"}
\* Two request threads: one of them runs alone in the sequential specification.
Threads == {1, 2}
MainIds == 1..NumItems
NoItem == 0
NoScene == "<none>"
NoThread == 0

\* The items of a scene, by id.
ItemIds(s) == IF s = "Main" THEN MainIds ELSE {1, 2}

\* The name of the source an item wraps; items 1 and 3 of Main share one.
ItemName(s, id) ==
    IF s = "Main" THEN (IF id = 2 THEN "b" ELSE "a")
    ELSE (IF id = 1 THEN "a" ELSE "c")

\* The group an item belongs to, NoGroup for a top-level item: item 2 of Alt
\* sits in a group.
NoGroup == ""
ItemGroup(s, id) == IF s = "Alt" /\ id = 2 THEN "g" ELSE NoGroup

\* Every source the compositor knows by name: the scenes and the items' sources.
SourceNames == Scenes \cup {"a", "b", "c"}

InitOrder == [s \in Scenes |-> IF s = "Main" THEN [i \in 1..NumItems |-> i] ELSE <<1, 2>>]

\* ------------------------------------------------------------- messages
MsgMissingParams == "missing request parameters"
MsgSceneNotExistSet == "requested scene does not exist"
MsgSceneNameNotSpecified == "Scene name not specified"
MsgSceneNotExist == "Scene does not exist"
MsgReorderNoScene == "requested scene doesn't exist"
MsgOrderNotSpecified == "sceneItem order not specified"
MsgInvalidItem == "Invalid sceneItem id or name specified"
MsgInvalidOrder == "Invalid sceneItem order"
MsgItemNameNotSpecified == "Item name not specified"
MsgIndexNotSpecified == "Item index not specified"
MsgUnableLoadScene == "Unable to load scene"
MsgUnableFindItem == "Unable to find item in scene"
MsgSceneNameMust == "Scene name must be specified"
MsgUnableFindScene == "Unable to find scene"
MsgItemNotSpecified == "Item is not specified"
MsgUnableFindSource == "Unable to find source in scene"
MsgOrderMissing == "Invalid order specified"
MsgUnknownOrder == "Unknown order"

OrderTokens == {"OBS_ORDER_MOVE_UP", "OBS_ORDER_MOVE_DOWN",
                "OBS_ORDER_MOVE_TOP", "OBS_ORDER_MOVE_BOTTOM"}

\* ------------------------------------------------------ sequence helpers
Range(f) == {f[i] : i \in DOMAIN f}
IsInjective(f) == \A i, j \in DOMAIN f : f[i] = f[j] => i = j
Reverse(q) == [i \in 1..Len(q) |-> q[Len(q) + 1 - i]]
IndexOf(q, x) == IF x \in Range(q) THEN CHOOSE i \in DOMAIN q : q[i] = x ELSE 0
Without(q, X) == SelectSeq(q, LAMBDA x : x \notin X)
Restrict(q, X) == SelectSeq(q, LAMBDA x : x \in X)
Perms(S) == {q \in [1..Cardinality(S) -> S] : Range(q) = S}
SeqsUpTo(S, n) == UNION {[1..k -> S] : k \in 0..n}

\* ------------------------------------------------------------- requests
\* The value of an "item" field or of an element of "items": a plain string,
\* or an object carrying an id (0: none) and/or a name ("": none).
Str(n) == [form |-> "string", id |-> 0, name |-> n]
Obj(i, n) == [form |-> "object", id |-> i, name |-> n]

\* obs_data_get_string: the string of a string field, "" for anything else.
GetString(v) == IF v.form = "string" THEN v.name ELSE ""

\* A request: its type, the fields it carries, and their values (an absent
\* field keeps the default below, which obs_data_get_* returns for it).
Request(op, has, scene, item, index, order, items) ==
    [op |-> op, has |-> has, scene |-> scene, item |-> item,
     index |-> index, order |-> order, items |-> items]
NoItemField == Str("")
NoReq == Request("none", {}, "", NoItemField, 0, "", <<>>)

\* WSRequestHandler::hasField
hasField(r, f) == f \in r.has

VARIABLES
    order,          \* compositor: scene -> its items' ids, position 0 first
    currentScene,   \* compositor: the current scene
    region,         \* compositor: scene -> thread with exclusive access, or NoThread
    pc,             \* thread -> where it is in its handler
    req,            \* thread -> the request it is handling
    scn,            \* thread -> the scene it located
    itm,            \* thread -> the scene item it resolved
    idx,            \* thread -> loop index i
    orderList,      \* thread -> orderList of the reorder callback
    ctx,            \* thread -> reorder_context (success, errorMessage)
    sceneItems,     \* thread -> the items a read has enumerated so far
    resp,           \* thread -> the response it returned
    pre,            \* thread -> every scene's order when the request began
    call,           \* thread -> the compositor mutation this request made
    srcRefs,        \* thread -> source references its request took and still holds
    mode            \* "seq": one request at a time; "conc": concurrent threads

vars == <<order, currentScene, region, pc, req, scn, itm, idx, orderList, ctx,
          sceneItems, resp, pre, call, srcRefs, mode>>

\* ------------------------------------------------------------ responses
NoResp == [status |-> "none", msg |-> "", name |-> "", sources |-> <<>>,
           source |-> "", scene |-> ""]
SendErrorResponse(m) == [NoResp EXCEPT !.status = "error", !.msg = m]
SendOKResponse == [NoResp EXCEPT !.status = "ok"]

\* The compositor mutation a request made: which primitive, what it was
\* handed, and whether the compositor accepted it.
NoCall == [prim |-> "none", handed |-> <<>>, accepted |-> TRUE]
NoCtx == [success |-> FALSE, errorMessage |-> ""]

\* --------------------------------------------- compositor and Utils calls
\* obs_get_source_by_name followed by obs_scene_from_source: the scene of
\* that name; a name no source carries, or the name of a source that is not
\* a scene, gives no scene.
SceneFromName(n) == IF n \in Scenes THEN n ELSE NoScene

\* Utils::GetSceneFromNameOrCurrent: the current scene for an empty name.
GetSceneFromNameOrCurrent(n, cur) == IF n = "" THEN cur ELSE SceneFromName(n)

\* obs_scene_find_source: the first item of the scene's order wrapping a
\* source of that name.
FindSource(s, ord, n) ==
    LET hits == {i \in DOMAIN ord : ItemName(s, ord[i]) = n}
    IN  IF hits = {} THEN NoItem
        ELSE ord[CHOOSE i \in hits : \A j \in hits : i <= j]

\* Utils::GetSceneItemFromItem: by exact id when the identifier carries one,
\* else the first item of that name.
GetSceneItemFromItem(s, ord, ident) ==
    IF ident.id # 0
    THEN (IF ident.id \in Range(ord) THEN ident.id ELSE NoItem)
    ELSE FindSource(s, ord, ident.name)

\* The orders that keep the sequence h and the sequence r, interleaved.
Merges(h, r) ==
    {q \in Perms(Range(h) \cup Range(r)) :
        Restrict(q, Range(h)) = h /\ Restrict(q, Range(r)) = r}

\* Faulty variant: the sequence handed over becomes the order, unchecked.
ReorderItems_Unchecked(s, ord, h) == {[accepted |-> TRUE, order |-> h]}

\* obs_scene_reorder_items2: rejects a sequence naming an item twice or an
\* item the scene does not have; else the items handed over take the order
\* handed over and the others keep theirs, placed as the compositor chooses.
\* A grouped item handed over as a top-level one (group = nullptr) is
\* undefined: the compositor may reject the sequence or take it as it stands.
ReorderItems(s, ord, h) ==
    IF ~IsInjective(h) \/ ~(Range(h) \subseteq Range(ord))
    THEN {[accepted |-> FALSE, order |-> ord]}
    ELSE {[accepted |-> TRUE, order |-> q] : q \in Merges(h, Without(ord, Range(h)))}
         \cup (IF \E x \in Range(h) : ItemGroup(s, x) # NoGroup
               THEN {[accepted |-> FALSE, order |-> ord]} ELSE {})

\* The order with item x at zero-based position k, the others shifted.
MoveTo(ord, x, k) ==
    LET rest == Without(ord, {x})
    IN  SubSeq(rest, 1, k) \o <<x>> \o SubSeq(rest, k + 1, Len(rest))

\* obs_sceneitem_set_order_position: an index in [0, count) moves the item
\* there; one outside is clamped or refused, as the compositor chooses.
SetOrderPosition(ord, x, k) ==
    IF k >= 0 /\ k < Len(ord)
    THEN {[accepted |-> TRUE, order |-> MoveTo(ord, x, k)]}
    ELSE {[accepted |-> FALSE, order |-> ord],
          [accepted |-> TRUE,
           order |-> MoveTo(ord, x, IF k < 0 THEN 0 ELSE Len(ord) - 1)]}

\* obs_sceneitem_set_order: one step toward the front or the back (none at
\* the end), or to the first or last position.
SetOrder(ord, x, where) ==
    LET at == IndexOf(ord, x) - 1
    IN  CASE where = "OBS_ORDER_MOVE_UP" -> MoveTo(ord, x, IF at = 0 THEN 0 ELSE at - 1)
          [] where = "OBS_ORDER_MOVE_DOWN" ->
                MoveTo(ord, x, IF at = Len(ord) - 1 THEN at ELSE at + 1)
          [] where = "OBS_ORDER_MOVE_TOP" -> MoveTo(ord, x, 0)
          [] OTHER -> MoveTo(ord, x, Len(ord) - 1)

\* The compositor gives a thread access to a scene's order when no other
\* thread holds the scene's update region.
Accessible(p, s) == region[s] \in {NoThread, p}

\* ------------------------------------------------------- request inputs
SceneNameInputs(m) == IF m = "seq" THEN {"", "Main", "Alt", "a", "zz"} ELSE {"Main"}
ReorderSceneInputs(m) == IF m = "seq" THEN {"", "Main", "a", "zz"} ELSE {"Main"}
Idents == {Obj(1, ""), Obj(2, ""), Obj(3, ""), Obj(99, ""), Obj(0, "a")}
ItemsInputs(m) ==
    IF m = "seq" THEN SeqsUpTo(Idents, MaxLen)
    ELSE {<<Obj(3, ""), Obj(1, "")>>, <<Obj(2, ""), Obj(99, "")>>, <<Obj(2, ""), Obj(2, "")>>}
ItemFieldInputs(m) ==
    IF m = "seq" THEN {Str("a"), Str("b"), Str("zz"), Obj(2, "a")} ELSE {Str("b")}
IndexInputs(m) == IF m = "seq" THEN 0..NumItems ELSE {0}
OrderInputs(m) ==
    IF m = "seq" THEN OrderTokens \cup {"sideways"} ELSE {"OBS_ORDER_MOVE_BOTTOM"}
FieldSets(m, F) == IF m = "seq" THEN SUBSET F ELSE {F}

SetCurrentSceneRequests(m) ==
    {Request("SetCurrentScene", {"scene-name"}, n, NoItemField, 0, "", <<>>) :
        n \in (IF m = "seq" THEN {"Main", "Alt", "zz"} ELSE {"Main", "Alt"})}
    \cup (IF m = "seq" THEN {Request("SetCurrentScene", {}, "", NoItemField, 0, "", <<>>)}
          ELSE {})
GetSceneRequests(m) ==
    {Request("GetScene", {"scene-name"}, n, NoItemField, 0, "", <<>>) :
        n \in SceneNameInputs(m)}
    \cup (IF m = "seq" THEN {Request("GetScene", {}, "", NoItemField, 0, "", <<>>)}
          ELSE {})
ReorderRequests(m) ==
    {Request("ReorderSceneItems", {"scene", "items"}, n, NoItemField, 0, "", l) :
        n \in ReorderSceneInputs(m), l \in ItemsInputs(m)}
    \cup (IF m = "seq"
          THEN {Request("ReorderSceneItems", {"scene"}, n, NoItemField, 0, "", <<>>) :
                    n \in ReorderSceneInputs(m)}
          ELSE {})
SetIndexRequests(m) ==
    {Request("SetSceneItemIndex", h,
             IF "scene-name" \in h THEN n ELSE "",
             IF "item" \in h THEN i ELSE NoItemField,
             IF "index" \in h THEN k ELSE 0, "", <<>>) :
        h \in FieldSets(m, {"scene-name", "item", "index"}),
        n \in SceneNameInputs(m), i \in ItemFieldInputs(m), k \in IndexInputs(m)}
SetOrderRequests(m) ==
    {Request("SetSceneItemOrder", h,
             IF "scene-name" \in h THEN n ELSE "",
             IF "item" \in h THEN i ELSE NoItemField, 0,
             IF "order" \in h THEN o ELSE "", <<>>) :
        h \in FieldSets(m, {"scene-name", "item", "order"}),
        n \in SceneNameInputs(m), i \in ItemFieldInputs(m), o \in OrderInputs(m)}

\* ---------------------------------------------------------------- state
TypeOK ==
    /\ \A s \in Scenes : Range(order[s]) \subseteq ItemIds(s) \cup {NoItem}
    /\ currentScene \in Scenes
    /\ region \in [Scenes -> Threads \cup {NoThread}]
    /\ mode \in {"seq", "conc"}

InitThread(m, p) == IF m = "seq" /\ p # 1 THEN "off" ELSE "idle"

InitMode(m) ==
    /\ mode = m
    /\ order = InitOrder
    /\ currentScene = "Main"
    /\ region = [s \in Scenes |-> NoThread]
    /\ pc = [p \in Threads |-> InitThread(m, p)]
    /\ req = [p \in Threads |-> NoReq]
    /\ scn = [p \in Threads |-> NoScene]
    /\ itm = [p \in Threads |-> NoItem]
    /\ idx = [p \in Threads |-> 0]
    /\ orderList = [p \in Threads |-> <<>>]
    /\ ctx = [p \in Threads |-> NoCtx]
    /\ sceneItems = [p \in Threads |-> <<>>]
    /\ resp = [p \in Threads |-> NoResp]
    /\ pre = [p \in Threads |-> InitOrder]
    /\ call = [p \in Threads |-> NoCall]
    /\ srcRefs = [p \in Threads |-> 0]

Init == InitMode("seq")
InitConc == InitMode("conc")

\* A thread takes a request r: it remembers it and every scene's order.
Take(p, r) ==
    /\ pc[p] = "idle"
    /\ req' = [req EXCEPT ![p] = r]
    /\ pre' = [pre EXCEPT ![p] = order]

\* The handler returns response r.
Respond(p, r) ==
    /\ resp' = [resp EXCEPT ![p] = r]
    /\ pc' = [pc EXCEPT ![p] = "done"]

\* The thread is free for the next request.
Return(p) ==
    /\ pc[p] = "done"
    /\ pc' = [pc EXCEPT ![p] = "idle"]
    /\ req' = [req EXCEPT ![p] = NoReq]
    /\ scn' = [scn EXCEPT ![p] = NoScene]
    /\ itm' = [itm EXCEPT ![p] = NoItem]
    /\ idx' = [idx EXCEPT ![p] = 0]
    /\ orderList' = [orderList EXCEPT ![p] = <<>>]
    /\ ctx' = [ctx EXCEPT ![p] = NoCtx]
    /\ sceneItems' = [sceneItems EXCEPT ![p] = <<>>]
    /\ resp' = [resp EXCEPT ![p] = NoResp]
    /\ pre' = [pre EXCEPT ![p] = InitOrder]
    /\ call' = [call EXCEPT ![p] = NoCall]
    /\ srcRefs' = [srcRefs EXCEPT ![p] = 0]
    /\ UNCHANGED <<order, currentScene, region, mode>>

\* ------------------------------------------------ HandleSetCurrentScene
HandleSetCurrentScene(p) ==
    /\ pc[p] = "idle"
    /\ \E r \in SetCurrentSceneRequests(mode) :
        /\ Take(p, r)
        /\ IF ~hasField(r, "scene-name")
           THEN Respond(p, SendErrorResponse(MsgMissingParams)) /\ UNCHANGED currentScene
           ELSE IF r.scene \in SourceNames
           THEN /\ currentScene' = (IF r.scene \in Scenes THEN r.scene ELSE currentScene)
                /\ Respond(p, SendOKResponse)
           ELSE Respond(p, SendErrorResponse(MsgSceneNotExistSet)) /\ UNCHANGED currentScene
        /\ UNCHANGED <<order, region, scn, itm, idx, orderList, ctx, sceneItems, call, mode, srcRefs>>

\* obs_data_get_string(req->data, f): the string a request carries in field
\* f, "" when the field is absent or is not a string.
FieldString(r, f) ==
    IF ~hasField(r, f) THEN ""
    ELSE CASE f \in {"scene", "scene-name"} -> r.scene
           [] f = "item" -> GetString(r.item)
           [] f = "order" -> r.order
           [] OTHER -> ""

\* obs_get_source_by_name and obs_frontend_get_current_scene hand out a new
\* reference to the source they return.
SourceAddRef(refs, p) == [refs EXCEPT ![p] = @ + 1]

\* obs_source_release, called by the handler or by an OBSSourceAutoRelease
\* going out of scope.
SourceRelease(refs, p) == [refs EXCEPT ![p] = @ - 1]

\* ------------------------------------- HandleGetCurrentScene, HandleGetScene
HandleGetCurrentScene(p) ==
    /\ Take(p, Request("GetCurrentScene", {}, "", NoItemField, 0, "", <<>>))
    /\ scn' = [scn EXCEPT ![p] = currentScene]
    /\ srcRefs' = SourceAddRef(srcRefs, p)
    /\ pc' = [pc EXCEPT ![p] = "gs_enter"]
    /\ UNCHANGED <<order, currentScene, region, itm, idx, orderList, ctx,
                   sceneItems, resp, call, mode>>

HandleGetScene(p) ==
    /\ pc[p] = "idle"
    /\ \E r \in GetSceneRequests(mode) :
        /\ Take(p, r)
        /\ IF ~hasField(r, "scene-name")
           THEN Respond(p, SendErrorResponse(MsgSceneNameNotSpecified))
                /\ UNCHANGED <<scn, srcRefs>>
           ELSE IF FieldString(r, "scene-name") \notin SourceNames
           THEN Respond(p, SendErrorResponse(MsgSceneNotExist)) /\ UNCHANGED <<scn, srcRefs>>
           ELSE /\ scn' = [scn EXCEPT ![p] = SceneFromName(FieldString(r, "scene-name"))]
                /\ srcRefs' = SourceAddRef(srcRefs, p)
                /\ pc' = [pc EXCEPT ![p] = "gs_enter"]
                /\ UNCHANGED resp
        /\ UNCHANGED <<order, currentScene, region, itm, idx, orderList, ctx,
                       sceneItems, call, mode>>

\* Utils::GetSceneItems: obs_scene_enum_items walks the scene's items, one
\* after the other, with exclusive access to the scene's order; a source
\* that is not a scene has no items.
GetSceneItemsEnter(p) ==
    /\ pc[p] = "gs_enter"
    /\ IF scn[p] = NoScene
       THEN pc' = [pc EXCEPT ![p] = "gs_exit"] /\ UNCHANGED region
       ELSE /\ region[scn[p]] = NoThread
            /\ region' = [region EXCEPT ![scn[p]] = p]
            /\ pc' = [pc EXCEPT ![p] = "gs_enum"]
    /\ idx' = [idx EXCEPT ![p] = 0]
    /\ sceneItems' = [sceneItems EXCEPT ![p] = <<>>]
    /\ UNCHANGED <<order, currentScene, req, scn, itm, orderList, ctx, resp, pre,
                   call, mode, srcRefs>>

GetSceneItemsEnum(p) ==
    /\ pc[p] = "gs_enum"
    /\ idx[p] < Len(order[scn[p]])
    /\ sceneItems' = [sceneItems EXCEPT ![p] = Append(@, order[scn[p]][idx[p] + 1])]
    /\ idx' = [idx EXCEPT ![p] = @ + 1]
    /\ pc' = [pc EXCEPT ![p] = IF idx[p] + 1 >= Len(order[scn[p]]) THEN "gs_exit"
                                ELSE "gs_enum"]
    /\ UNCHANGED <<order, currentScene, region, req, scn, itm, orderList, ctx, resp,
                   pre, call, mode, srcRefs>>

GetSceneItemsExit(p) ==
    /\ pc[p] = "gs_exit"
    /\ region' = [s \in Scenes |-> IF s = scn[p] THEN NoThread ELSE region[s]]
    /\ Respond(p, [SendOKResponse EXCEPT
                       !.name = IF req[p].op = "GetCurrentScene" THEN scn[p] ELSE "",
                       !.sources = sceneItems[p]])
    /\ srcRefs' = SourceRelease(srcRefs, p)
    /\ UNCHANGED <<order, currentScene, req, scn, itm, idx, orderList, ctx,
                   sceneItems, pre, call, mode>>

\* ----------------------------------------------- HandleReorderSceneItems
\* Faulty variant: the callback runs without waiting for exclusive access.
AtomicUpdateAcquirable_Always(p, s) == TRUE

\* obs_scene_atomic_update runs the callback once no other thread has
\* access to the scene's order.
AtomicUpdateAcquirable(p, s) == region[s] = NoThread

\* Faulty variant: the scene is not given up.
AtomicUpdateRelease_Kept(rg, s) == rg

\* obs_scene_atomic_update gives up the scene once the callback has returned.
AtomicUpdateRelease(rg, s) == [rg EXCEPT ![s] = NoThread]

\* Faulty variant: the check of the resolved item is missing.
Unresolved_Never(item) == FALSE

\* if (!sceneItem): the identifier did not resolve.
Unresolved(item) == item = NoItem

\* orderList.insert(0, info)
InsertOrderInfo(list, item) == <<item>> \o list

HandleReorderSceneItems(p) ==
    /\ pc[p] = "idle"
    /\ \E r \in ReorderRequests(mode) :
        /\ Take(p, r)
        /\ LET scene == GetSceneFromNameOrCurrent(FieldString(r, "scene"), currentScene)
           IN  IF scene = NoScene
               THEN Respond(p, SendErrorResponse(MsgReorderNoScene)) /\ UNCHANGED scn
               ELSE IF ~hasField(r, "items")
               THEN Respond(p, SendErrorResponse(MsgOrderNotSpecified)) /\ UNCHANGED scn
               ELSE /\ scn' = [scn EXCEPT ![p] = scene]
                    /\ pc' = [pc EXCEPT ![p] = "ro_enter"]
                    /\ UNCHANGED resp
        /\ ctx' = [ctx EXCEPT ![p] = NoCtx]
        /\ UNCHANGED <<order, currentScene, region, itm, idx, orderList, sceneItems,
                       call, mode, srcRefs>>

\* The callback starts: orderList is empty and i is 0.
ReorderEnter(p) ==
    /\ pc[p] = "ro_enter"
    /\ AtomicUpdateAcquirable(p, scn[p])
    /\ region' = [region EXCEPT ![scn[p]] = p]
    /\ idx' = [idx EXCEPT ![p] = 0]
    /\ orderList' = [orderList EXCEPT ![p] = <<>>]
    /\ pc' = [pc EXCEPT ![p] = IF Len(req[p].items) = 0 THEN "ro_apply" ELSE "ro_loop"]
    /\ UNCHANGED <<order, currentScene, req, scn, itm, ctx, sceneItems, resp, pre,
                   call, mode, srcRefs>>

\* One round of the loop: resolve items[i]; return from the callback when it
\* does not resolve, else put it in orderList.
ReorderResolve(p) ==
    /\ pc[p] = "ro_loop"
    /\ LET sceneItem == GetSceneItemFromItem(scn[p], order[scn[p]],
                                             req[p].items[idx[p] + 1])
       IN  /\ itm' = [itm EXCEPT ![p] = sceneItem]
           /\ IF Unresolved(sceneItem)
              THEN /\ ctx' = [ctx EXCEPT ![p] = [success |-> FALSE,
                                                 errorMessage |-> MsgInvalidItem]]
                   /\ pc' = [pc EXCEPT ![p] = "ro_exit"]
                   /\ UNCHANGED <<idx, orderList>>
              ELSE /\ orderList' = [orderList EXCEPT ![p] = InsertOrderInfo(@, sceneItem)]
                   /\ idx' = [idx EXCEPT ![p] = @ + 1]
                   /\ pc' = [pc EXCEPT ![p] = IF idx[p] + 1 >= Len(req[p].items)
                                               THEN "ro_apply" ELSE "ro_loop"]
                   /\ UNCHANGED ctx
    /\ UNCHANGED <<order, currentScene, region, req, scn, sceneItems, resp, pre,
                   call, mode, srcRefs>>

\* Faulty variant: the compositor's answer is not looked at.
ReorderOutcome_Ignored(accepted) == [success |-> TRUE, errorMessage |-> ""]

\* ctx->success takes the compositor's answer; a rejection sets errorMessage.
ReorderOutcome(accepted) ==
    [success |-> accepted, errorMessage |-> IF accepted THEN "" ELSE MsgInvalidOrder]

\* ctx->success = obs_scene_reorder_items2(scene, orderList.data(), orderList.size())
ReorderApply(p) ==
    /\ pc[p] = "ro_apply"
    /\ \E out \in ReorderItems(scn[p], order[scn[p]], orderList[p]) :
        /\ order' = [order EXCEPT ![scn[p]] = out.order]
        /\ call' = [call EXCEPT ![p] = [prim |-> "reorder", handed |-> orderList[p],
                                        accepted |-> out.accepted]]
        /\ ctx' = [ctx EXCEPT ![p] = ReorderOutcome(out.accepted)]
    /\ pc' = [pc EXCEPT ![p] = "ro_exit"]
    /\ UNCHANGED <<currentScene, region, req, scn, itm, idx, orderList, sceneItems,
                   resp, pre, mode, srcRefs>>

\* The callback has returned: obs_scene_atomic_update returns and the
\* handler answers from ctx.
ReorderExit(p) ==
    /\ pc[p] = "ro_exit"
    /\ region' = AtomicUpdateRelease(region, scn[p])
    /\ Respond(p, IF ~ctx[p].success THEN SendErrorResponse(ctx[p].errorMessage)
                  ELSE SendOKResponse)
    /\ UNCHANGED <<order, currentScene, req, scn, itm, idx, orderList, ctx,
                   sceneItems, pre, call, mode, srcRefs>>

\* ----------------------------- HandleSetSceneItemIndex, HandleSetSceneItemOrder
\* Faulty variant: a name no source carries falls back to the current scene.
GetSourceByName_OrCurrent(n) == IF n \in SourceNames THEN n ELSE currentScene

\* obs_get_source_by_name: the source of that name, if there is one.
GetSourceByName(n) == IF n \in SourceNames THEN n ELSE NoScene

\* Faulty variant: the final else is missing and an unknown token moves the item up.
ParseOrder_Default(token) == IF token \in OrderTokens THEN token ELSE "OBS_ORDER_MOVE_UP"

\* Faulty variant: the top and bottom branches are exchanged.
ParseOrder_TopBottom(token) ==
    CASE token = "OBS_ORDER_MOVE_TOP" -> "OBS_ORDER_MOVE_BOTTOM"
      [] token = "OBS_ORDER_MOVE_BOTTOM" -> "OBS_ORDER_MOVE_TOP"
      [] token \in OrderTokens -> token
      [] OTHER -> "unknown"

\* Faulty variant: the up and down branches are exchanged.
ParseOrder_UpDown(token) ==
    CASE token = "OBS_ORDER_MOVE_UP" -> "OBS_ORDER_MOVE_DOWN"
      [] token = "OBS_ORDER_MOVE_DOWN" -> "OBS_ORDER_MOVE_UP"
      [] token \in OrderTokens -> token
      [] OTHER -> "unknown"

\* The if/else-if chain on newOrder: the movement a token names, if any.
ParseOrder(token) == IF token \in OrderTokens THEN token ELSE "unknown"

HandleSetSceneItemIndex(p) ==
    /\ pc[p] = "idle"
    /\ \E r \in SetIndexRequests(mode) :
        /\ Take(p, r)
        /\ LET scene_src == GetSourceByName(FieldString(r, "scene-name"))
           IN  IF ~hasField(r, "scene-name")
               THEN /\ Respond(p, SendErrorResponse(MsgSceneNameNotSpecified))
                    /\ UNCHANGED <<scn, srcRefs>>
               ELSE IF ~hasField(r, "item")
               THEN /\ Respond(p, SendErrorResponse(MsgItemNameNotSpecified))
                    /\ UNCHANGED <<scn, srcRefs>>
               ELSE IF ~hasField(r, "index")
               THEN /\ Respond(p, SendErrorResponse(MsgIndexNotSpecified))
                    /\ UNCHANGED <<scn, srcRefs>>
               ELSE IF scene_src = NoScene
               THEN /\ Respond(p, SendErrorResponse(MsgSceneNotExist))
                    /\ UNCHANGED <<scn, srcRefs>>
               \* from here on scene_src, a plain pointer, holds a reference
               ELSE IF SceneFromName(scene_src) = NoScene
               THEN /\ Respond(p, SendErrorResponse(MsgUnableLoadScene))
                    /\ srcRefs' = SourceAddRef(srcRefs, p)
                    /\ UNCHANGED scn
               ELSE /\ scn' = [scn EXCEPT ![p] = SceneFromName(scene_src)]
                    /\ srcRefs' = SourceAddRef(srcRefs, p)
                    /\ pc' = [pc EXCEPT ![p] = "si_find"]
                    /\ UNCHANGED resp
        /\ UNCHANGED <<order, currentScene, region, itm, idx, orderList, ctx,
                       sceneItems, call, mode>>

\* Faulty variant: the position is off by one.
GetIndex_OffByOne(r) == r.index + 1

\* int pos = obs_data_get_int(req->data, "index")
GetIndex(r) == r.index

\* Faulty variant: the item is moved in the current scene.
SceneOfItem_Current(p) == currentScene

\* The scene whose order a set-item call changes: the one the item was found in.
SceneOfItem(p) == scn[p]

\* obs_scene_find_source(scene, srcName)
SetIndexFind(p) ==
    /\ pc[p] = "si_find"
    /\ Accessible(p, scn[p])
    /\ LET sceneItem == FindSource(scn[p], order[scn[p]], FieldString(req[p], "item"))
       IN  /\ itm' = [itm EXCEPT ![p] = sceneItem]
           /\ IF sceneItem = NoItem
              THEN Respond(p, SendErrorResponse(MsgUnableFindItem))
              ELSE pc' = [pc EXCEPT ![p] = "si_apply"] /\ UNCHANGED resp
    /\ UNCHANGED <<order, currentScene, region, req, scn, idx, orderList, ctx,
                   sceneItems, pre, call, mode, srcRefs>>

\* obs_sceneitem_set_order_position(sceneItem, pos), then SendOKResponse
SetIndexApply(p) ==
    /\ pc[p] = "si_apply"
    /\ Accessible(p, scn[p])
    /\ \E out \in SetOrderPosition(order[SceneOfItem(p)], itm[p], GetIndex(req[p])) :
        /\ order' = [order EXCEPT ![SceneOfItem(p)] = out.order]
        /\ call' = [call EXCEPT ![p] = [prim |-> "setIndex", handed |-> <<itm[p]>>,
                                        accepted |-> out.accepted]]
    /\ Respond(p, SendOKResponse)
    /\ UNCHANGED <<currentScene, region, req, scn, itm, idx, orderList, ctx,
                   sceneItems, pre, mode, srcRefs>>

HandleSetSceneItemOrder(p) ==
    /\ pc[p] = "idle"
    /\ \E r \in SetOrderRequests(mode) :
        /\ Take(p, r)
        /\ LET scene_src == GetSourceByName(FieldString(r, "scene-name"))
           IN  IF ~hasField(r, "scene-name")
               THEN /\ Respond(p, SendErrorResponse(MsgSceneNameMust))
                    /\ UNCHANGED <<scn, srcRefs>>
               ELSE IF scene_src = NoScene
               THEN /\ Respond(p, SendErrorResponse(MsgSceneNotExist))
                    /\ UNCHANGED <<scn, srcRefs>>
               \* from here on scene_src, a plain pointer, holds a reference
               ELSE IF SceneFromName(scene_src) = NoScene
               THEN /\ Respond(p, SendErrorResponse(MsgUnableFindScene))
                    /\ srcRefs' = SourceAddRef(srcRefs, p)
                    /\ UNCHANGED scn
               ELSE IF ~hasField(r, "item")
               THEN /\ Respond(p, SendErrorResponse(MsgItemNotSpecified))
                    /\ srcRefs' = SourceAddRef(srcRefs, p)
                    /\ UNCHANGED scn
               ELSE /\ scn' = [scn EXCEPT ![p] = SceneFromName(scene_src)]
                    /\ srcRefs' = SourceAddRef(srcRefs, p)
                    /\ pc' = [pc EXCEPT ![p] = "so_find"]
                    /\ UNCHANGED resp
        /\ UNCHANGED <<order, currentScene, region, itm, idx, orderList, ctx,
                       sceneItems, call, mode>>

\* obs_scene_find_source(scene, sourceName), then the checks of "order"
SetOrderFind(p) ==
    /\ pc[p] = "so_find"
    /\ Accessible(p, scn[p])
    /\ LET item == FindSource(scn[p], order[scn[p]], FieldString(req[p], "item"))
       IN  /\ itm' = [itm EXCEPT ![p] = item]
           /\ IF item = NoItem
              THEN Respond(p, SendErrorResponse(MsgUnableFindSource))
              ELSE IF ~hasField(req[p], "order")
              THEN Respond(p, SendErrorResponse(MsgOrderMissing))
              ELSE IF ParseOrder(FieldString(req[p], "order")) = "unknown"
              THEN Respond(p, SendErrorResponse(MsgUnknownOrder))
              ELSE pc' = [pc EXCEPT ![p] = "so_apply"] /\ UNCHANGED resp
    /\ UNCHANGED <<order, currentScene, region, req, scn, idx, orderList, ctx,
                   sceneItems, pre, call, mode, srcRefs>>

\* obs_sceneitem_set_order(item, where), obs_source_release(scene_src), then
\* the response echoing the request's "source" and "scene" fields
SetOrderApply(p) ==
    /\ pc[p] = "so_apply"
    /\ Accessible(p, scn[p])
    /\ order' = [order EXCEPT ![SceneOfItem(p)] =
                    SetOrder(@, itm[p], ParseOrder(FieldString(req[p], "order")))]
    /\ call' = [call EXCEPT ![p] = [prim |-> "move", handed |-> <<itm[p]>>,
                                    accepted |-> TRUE]]
    /\ srcRefs' = SourceRelease(srcRefs, p)
    /\ Respond(p, [SendOKResponse EXCEPT !.source = FieldString(req[p], "source"),
                                         !.scene = FieldString(req[p], "scene")])
    /\ UNCHANGED <<currentScene, region, req, scn, itm, idx, orderList, ctx,
                   sceneItems, pre, mode>>

\* ------------------------------------------------------- specifications
Next ==
    \E p \in Threads :
        \/ HandleSetCurrentScene(p)
        \/ HandleGetCurrentScene(p)
        \/ HandleGetScene(p)
        \/ GetSceneItemsEnter(p)
        \/ GetSceneItemsEnum(p)
        \/ GetSceneItemsExit(p)
        \/ HandleReorderSceneItems(p)
        \/ ReorderEnter(p)
        \/ ReorderResolve(p)
        \/ ReorderApply(p)
        \/ ReorderExit(p)
        \/ HandleSetSceneItemIndex(p)
        \/ SetIndexFind(p)
        \/ SetIndexApply(p)
        \/ HandleSetSceneItemOrder(p)
        \/ SetOrderFind(p)
        \/ SetOrderApply(p)
        \/ Return(p)

\* One request at a time, every input.
Spec == Init /\ [][Next]_vars

\* Concurrent request threads.
SpecConc == InitConc /\ [][Next]_vars

\* ------------------------------------------------------------ properties
\* Thread p has returned from a request of type op.
Returned(p, op) == pc[p] = "done" /\ req[p].op = op

\* Thread p has returned from a reorder that located its scene and carried
\* a list of items.
ReorderRan(p) ==
    /\ Returned(p, "ReorderSceneItems")
    /\ scn[p] # NoScene
    /\ hasField(req[p], "items")

\* What the identifiers of p's list resolve to, one by one, in the scene's
\* order as the request found it.
ResolvedList(p) ==
    [i \in DOMAIN req[p].items |->
        GetSceneItemFromItem(scn[p], pre[p][scn[p]], req[p].items[i])]

ReorderValidationFailed == {MsgInvalidItem, MsgInvalidOrder}

\* C1: a reorder whose list holds an identifier that resolves to no item of
\* the scene returns the validation failure, leaves the scene's order as it
\* was before the call, and never calls the compositor's full-order primitive.
C1_UnresolvedAborts ==
    \A p \in Threads :
        (ReorderRan(p) /\ NoItem \in Range(ResolvedList(p)))
            => /\ resp[p].status = "error"
               /\ resp[p].msg \in ReorderValidationFailed
               /\ order[scn[p]] = pre[p][scn[p]]
               /\ call[p].prim = "none"

\* A reorder returned after its first identifier resolved and a later one did not.
C1_Witness ==
    \E p \in Threads :
        /\ ReorderRan(p)
        /\ Len(req[p].items) >= 2
        /\ ResolvedList(p)[1] # NoItem
        /\ NoItem \in Range(ResolvedList(p))
        /\ resp[p].msg = MsgInvalidItem

\* C2: after a successful reorder the items the list names stand in the
\* scene's order in the sequence the list gives them, first identifier first,
\* and the items it does not name keep their relative order.
C2_OrderFollowsList ==
    \A p \in Threads :
        (ReorderRan(p) /\ resp[p].status = "ok")
            => LET named == Range(ResolvedList(p))
               IN  /\ Restrict(order[scn[p]], named) = ResolvedList(p)
                   /\ Without(order[scn[p]], named) = Without(pre[p][scn[p]], named)

\* C3: the sequence handed to the compositor's full-order primitive is the
\* caller's list resolved element by element: the i-th handle handed over is
\* what the i-th identifier resolved to.
C3_HandedUnmodified ==
    \A p \in Threads :
        (ReorderRan(p) /\ call[p].prim = "reorder")
            => call[p].handed = ResolvedList(p)

\* Thread p has resolved an item of its scene and has not yet applied its
\* mutation.
BetweenResolveAndApply(p) ==
    \/ pc[p] \in {"si_apply", "so_apply"}
    \/ pc[p] = "ro_loop" /\ idx[p] > 0
    \/ pc[p] = "ro_apply" /\ Len(req[p].items) > 0

\* C4: no step of a mutating operation falls between the resolve and the
\* apply of another mutating operation on the same scene: two threads are
\* never both between their resolve and their apply on one scene.
C4_MutatorsExclusive ==
    \A p, q \in Threads :
        (p # q /\ BetweenResolveAndApply(p) /\ BetweenResolveAndApply(q))
            => scn[p] # scn[q]

\* Thread p is inside the update region of a reorder on scene s.
InReorderRegion(p, s) == pc[p] \in {"ro_loop", "ro_apply", "ro_exit"} /\ scn[p] = s

\* Thread p is reading the items of a scene.
Reading(p) == pc[p] \in {"gs_enum", "gs_exit"} /\ scn[p] # NoScene

\* C5: a read of a scene's order never interleaves with a reorder of that
\* scene: while it reads no thread is inside a reorder's region on the scene,
\* what it has read is the front of the scene's order, and what it returns is
\* the whole order the scene has then, which is the order before or after any
\* concurrent reorder's region and never one in between.
C5_ReadOldOrNew ==
    \A p \in Threads :
        Reading(p)
            => /\ \A q \in Threads \ {p} : ~InReorderRegion(q, scn[p])
               /\ sceneItems[p] = SubSeq(order[scn[p]], 1, Len(sceneItems[p]))
               /\ pc[p] = "gs_exit" => sceneItems[p] = order[scn[p]]

\* A read is under way on a scene that a reorder is waiting to enter, after
\* the scene's order has changed.
C5_Witness ==
    \E p, q \in Threads :
        /\ pc[p] = "gs_enum" /\ idx[p] >= 1
        /\ pc[q] = "ro_enter" /\ scn[q] = scn[p]
        /\ order[scn[p]] # InitOrder[scn[p]]

\* C6: when the compositor refuses a setIndex or moveRelative call the
\* operation returns a failure, never a success.
C6_RefusalPropagates ==
    \A p \in Threads :
        (pc[p] = "done" /\ call[p].prim \in {"setIndex", "move"} /\ ~call[p].accepted)
            => resp[p].status = "error"

\* C7: once a reorder has returned, with any outcome, its thread holds no
\* scene's update region, and a reorder of the same scene waiting for the
\* region can enter it.
C7_RegionReleased ==
    \A q \in Threads :
        Returned(q, "ReorderSceneItems")
            => /\ \A s \in Scenes : region[s] # q
               /\ \A p \in Threads \ {q} :
                    (pc[p] = "ro_enter" /\ scn[p] = scn[q]) => ENABLED ReorderEnter(p)

\* A reorder returned its failure for an unresolvable identifier (for the
\* compositor's rejection, in the second) and another reorder is inside the
\* same scene's region.
C7_Witness ==
    \E p, q \in Threads :
        /\ Returned(q, "ReorderSceneItems")
        /\ resp[q].msg = MsgInvalidItem
        /\ InReorderRegion(p, scn[q])

C7_WitnessRejected ==
    \E p, q \in Threads :
        /\ Returned(q, "ReorderSceneItems")
        /\ resp[q].msg = MsgInvalidOrder
        /\ InReorderRegion(p, scn[q])

\* The input fields an operation requires.
RequiredFields(op) ==
    CASE op = "GetScene" -> {"scene-name"}
      [] op = "SetSceneItemIndex" -> {"scene-name", "item", "index"}
      [] op = "SetSceneItemOrder" -> {"scene-name", "item", "order"}
      [] OTHER -> {}

MissingParameter ==
    {MsgSceneNameNotSpecified, MsgItemNameNotSpecified, MsgIndexNotSpecified,
     MsgSceneNameMust, MsgItemNotSpecified, MsgOrderMissing}

\* C8: an operation that lacks a required field returns the missing-parameter
\* error, whether or not the scene or item it names exists.
C8_MissingParameterFirst ==
    \A p \in Threads :
        (pc[p] = "done" /\ ~(RequiredFields(req[p].op) \subseteq req[p].has))
            => resp[p].status = "error" /\ resp[p].msg \in MissingParameter

\* Thread p has returned from a set-item-order whose scene and item were
\* found and whose request carries an order token.
SetOrderReachedToken(p) ==
    /\ Returned(p, "SetSceneItemOrder")
    /\ RequiredFields("SetSceneItemOrder") \subseteq req[p].has
    /\ scn[p] # NoScene
    /\ itm[p] # NoItem

\* C9: a set-item-order whose token is none of the four recognized values
\* fails with the unknown-order error, which no other failure uses, without
\* calling the compositor's move primitive and with every order unchanged.
C9_UnknownOrderRejected ==
    \A p \in Threads :
        /\ (SetOrderReachedToken(p) /\ req[p].order \notin OrderTokens)
            => /\ resp[p] = SendErrorResponse(MsgUnknownOrder)
               /\ call[p].prim = "none"
               /\ order = pre[p]
        /\ (pc[p] = "done" /\ resp[p].msg = MsgUnknownOrder)
            => SetOrderReachedToken(p) /\ req[p].order \notin OrderTokens

\* A set-item-order found its scene and item and returned for the token "sideways".
C9_Witness ==
    \E p \in Threads :
        /\ SetOrderReachedToken(p)
        /\ req[p].order = "sideways"
        /\ resp[p].status = "error"

SceneNotFound == {MsgReorderNoScene, MsgSceneNotExist, MsgUnableLoadScene, MsgUnableFindScene}

\* The scene name a mutating request supplied, when the handler got to read it.
SuppliedSceneName(p) ==
    CASE req[p].op = "ReorderSceneItems" -> FieldString(req[p], "scene")
      [] req[p].op = "SetSceneItemIndex" /\ RequiredFields(req[p].op) \subseteq req[p].has
            -> FieldString(req[p], "scene-name")
      [] req[p].op = "SetSceneItemOrder" -> FieldString(req[p], "scene-name")
      [] OTHER -> ""

\* C10: a mutating operation given a non-empty scene name that matches no
\* scene fails with a scene-not-found error and changes no scene's order; the
\* scene an operation works on is the one named, or the current scene for a
\* reorder given an empty name.
C10_NoFallbackToCurrent ==
    \A p \in Threads :
        /\ (pc[p] = "done" /\ SuppliedSceneName(p) # "" /\ SuppliedSceneName(p) \notin Scenes)
            => /\ resp[p].status = "error"
               /\ resp[p].msg \in SceneNotFound
               /\ call[p].prim = "none"
               /\ order = pre[p]
        /\ (req[p].op \in {"ReorderSceneItems", "SetSceneItemIndex", "SetSceneItemOrder"}
                /\ scn[p] # NoScene)
            => \/ scn[p] = SuppliedSceneName(p)
               \/ /\ req[p].op = "ReorderSceneItems"
                  /\ FieldString(req[p], "scene") = ""
                  /\ scn[p] = currentScene

\* A set-item-index naming a scene that does not exist returned while the
\* current scene holds the item it names.
C10_Witness ==
    \E p \in Threads :
        /\ Returned(p, "SetSceneItemIndex")
        /\ SuppliedSceneName(p) = "zz"
        /\ FindSource(currentScene, order[currentScene], FieldString(req[p], "item")) # NoItem
        /\ resp[p].msg = MsgSceneNotExist

\* Thread p has returned from a set-item-index or set-item-order that had
\* its required fields and located its scene.
SetItemRan(p) ==
    /\ pc[p] = "done"
    /\ req[p].op \in {"SetSceneItemIndex", "SetSceneItemOrder"}
    /\ RequiredFields(req[p].op) \subseteq req[p].has
    /\ scn[p] # NoScene

\* The identifier an "item" field supplies: a plain string is a name.
ItemIdentifier(v) == IF v.form = "string" THEN Obj(0, v.name) ELSE v

\* The item the identifier rule gives for p's "item" field: by exact id when
\* it carries one, else the first of that name in the scene's order.
RuleItem(p) == GetSceneItemFromItem(scn[p], pre[p][scn[p]], ItemIdentifier(req[p].item))

ItemNotFound == {MsgUnableFindItem, MsgUnableFindSource}

\* C11: set-item-index and set-item-order work on the item the identifier
\* rule gives (by exact id when the identifier carries one, else the first of
\* that name) and report item-not-found when it gives none.
C11_ItemByIdentifierRule ==
    \A p \in Threads :
        SetItemRan(p)
            => IF RuleItem(p) = NoItem
               THEN resp[p].status = "error" /\ resp[p].msg \in ItemNotFound
               ELSE itm[p] = RuleItem(p)

\* C18: when an operation has returned, on whatever path, it holds no
\* reference to a scene's source any more.
C18_NoReferenceHeld ==
    \A p \in Threads : pc[p] = "done" => srcRefs[p] = 0

\* C17: a successful set-item-order answers with the identifiers of its
\* request: "scene" is the scene name supplied and "source" is the item
\* supplied.
C17_EchoesIdentifiers ==
    \A p \in Threads :
        (Returned(p, "SetSceneItemOrder") /\ resp[p].status = "ok")
            => /\ resp[p].scene = FieldString(req[p], "scene-name")
               /\ resp[p].source = FieldString(req[p], "item")

C13_RejectionIsFailure ==
    \A p \in Threads :
        /\ (ReorderRan(p) /\ call[p].prim = "reorder" /\ ~call[p].accepted)
            => /\ resp[p] = SendErrorResponse(MsgInvalidOrder)
               /\ order = pre[p]
        /\ (ReorderRan(p) /\ NoItem \notin Range(ResolvedList(p))
                /\ ~IsInjective(ResolvedList(p)))
            => /\ call[p].prim = "reorder" /\ ~call[p].accepted
               /\ resp[p].status = "error"

\* A reorder of three identifiers, two of them resolving to one item, returned.
C13_Witness ==
    \E p \in Threads :
        /\ ReorderRan(p)
        /\ Len(req[p].items) = 3
        /\ NoItem \notin Range(ResolvedList(p))
        /\ Cardinality(Range(ResolvedList(p))) = 2
        /\ resp[p].msg = MsgInvalidOrder

\* C14: after a successful set-item-index with an index k in [0, count) the
\* item stands at rank k of its scene's order and the other items keep their
\* relative order.
C14_IndexRoundTrip ==
    \A p \in Threads :
        (SetItemRan(p) /\ req[p].op = "SetSceneItemIndex" /\ resp[p].status = "ok"
            /\ req[p].index \in 0..(Len(pre[p][scn[p]]) - 1))
            => /\ order[scn[p]][req[p].index + 1] = itm[p]
               /\ Without(order[scn[p]], {itm[p]}) = Without(pre[p][scn[p]], {itm[p]})
               /\ itm[p] = RuleItem(p)

\* The front-most item of a changed order has been set to the last index.
C14_Witness ==
    \E p \in Threads :
        /\ SetItemRan(p) /\ req[p].op = "SetSceneItemIndex" /\ resp[p].status = "ok"
        /\ pre[p][scn[p]] # InitOrder[scn[p]]
        /\ pre[p][scn[p]][1] = itm[p]
        /\ req[p].index = Len(pre[p][scn[p]]) - 1
        /\ order[scn[p]] # pre[p][scn[p]]

\* Thread p has returned from a set-item-order with token tok that found its
\* scene and its item.
MoveRan(p, tok) == SetOrderReachedToken(p) /\ req[p].order = tok

\* C15: MOVE_TOP puts the item at position 0 and MOVE_BOTTOM at the last
\* position, the other items keeping their relative order; both succeed, and
\* MOVE_TOP on the item already at position 0 leaves the order as it was.
C15_TopAndBottom ==
    \A p \in Threads :
        LET s == scn[p]
            others == Without(order[s], {itm[p]}) = Without(pre[p][s], {itm[p]})
        IN  /\ MoveRan(p, "OBS_ORDER_MOVE_TOP")
                => /\ resp[p].status = "ok"
                   /\ order[s][1] = itm[p] /\ others
                   /\ pre[p][s][1] = itm[p] => order[s] = pre[p][s]
            /\ MoveRan(p, "OBS_ORDER_MOVE_BOTTOM")
                => /\ resp[p].status = "ok"
                   /\ order[s][Len(order[s])] = itm[p] /\ others

\* MOVE_BOTTOM has moved an item that stood in the middle of its scene's order.
C15_Witness ==
    \E p \in Threads :
        /\ MoveRan(p, "OBS_ORDER_MOVE_BOTTOM")
        /\ Len(pre[p][scn[p]]) >= 3
        /\ pre[p][scn[p]][2] = itm[p]
        /\ order[scn[p]] # pre[p][scn[p]]

\* The order ord with the items at ranks i and i + 1 (from 1) exchanged.
Swapped(ord, i) ==
    [j \in DOMAIN ord |-> IF j = i THEN ord[i + 1] ELSE IF j = i + 1 THEN ord[i] ELSE ord[j]]

\* C16: MOVE_UP on the front-most item and MOVE_DOWN on the back-most item
\* succeed and leave the order as it was; on any other item they exchange it
\* with its neighbour toward the front / the back and change nothing else.
C16_UpAndDown ==
    \A p \in Threads :
        LET s == scn[p]
            at == IndexOf(pre[p][s], itm[p])
        IN  /\ MoveRan(p, "OBS_ORDER_MOVE_UP")
                => /\ resp[p].status = "ok"
                   /\ order[s] = IF at = 1 THEN pre[p][s] ELSE Swapped(pre[p][s], at - 1)
            /\ MoveRan(p, "OBS_ORDER_MOVE_DOWN")
                => /\ resp[p].status = "ok"
                   /\ order[s] = IF at = Len(pre[p][s]) THEN pre[p][s]
                                 ELSE Swapped(pre[p][s], at)

\* MOVE_DOWN has exchanged the front-most item with its neighbour.
C16_Witness ==
    \E p \in Threads :
        /\ MoveRan(p, "OBS_ORDER_MOVE_DOWN")
        /\ pre[p][scn[p]][1] = itm[p]
        /\ order[scn[p]][2] = itm[p]
        /\ order[scn[p]] # pre[p][scn[p]]

\* The positions at which a handler calls a mutating primitive of the
\* compositor.
MutationCalls == {"ro_apply", "si_apply", "so_apply"}

\* C19: a step of a handler changes a scene's order only where reorder-items,
\* set-item-index or set-item-order calls the compositor's mutation, and then
\* only the order of the scene the handler located; only set-current-scene
\* changes the current scene. So the read operations, and every operation
\* that returns an error before the mutation call, change no order.
C19_Frame ==
    [][\A p \in Threads :
        pc'[p] # pc[p] =>
            /\ currentScene' # currentScene
                => (pc[p] = "idle" /\ req'[p].op = "SetCurrentScene")
            /\ \A s \in Scenes :
                order'[s] # order[s] => (pc[p] \in MutationCalls /\ s = scn[p])]_vars

\* A set-item-order has changed the order of a scene that is not the current
\* one, after the current scene's order had been changed as well.
C19_Witness ==
    \E p \in Threads :
        /\ MoveRan(p, "OBS_ORDER_MOVE_DOWN")
        /\ scn[p] # currentScene
        /\ order[scn[p]] # pre[p][scn[p]]
        /\ order[currentScene] # InitOrder[currentScene]
        /\ order[currentScene] = pre[p][currentScene]

\* Thread p has returned from a reorder one of whose identifiers resolved to
\* an item that belongs to a group.
ReorderNamedGrouped(p) ==
    /\ ReorderRan(p)
    /\ \E i \in DOMAIN req[p].items :
        /\ ResolvedList(p)[i] # NoItem
        /\ ItemGroup(scn[p], ResolvedList(p)[i]) # NoGroup

\* C20: a reorder one of whose identifiers resolves to a grouped item fails
\* without handing anything to the compositor and without changing an order.
C20_GroupedItemRejected ==
    \A p \in Threads :
        ReorderNamedGrouped(p)
            => /\ resp[p].status = "error"
               /\ call[p].prim = "none"
               /\ order = pre[p]
====
